---- MODULE Spec2Model ----
(***************************************************************************)
(* Model of src/unix.rs of the terminal-size crate: the size of the        *)
(* terminal attached to STDOUT, asked of the tty driver (TIOCGWINSZ), with *)
(* a fallback to the environment variables COLUMNS and LINES when the      *)
(* driver answers 0 x 0.                                                   *)
(*                                                                         *)
(* The state is what the three functions read (the tty attachment of       *)
(* STDOUT, the driver's window-size record, the environment block) plus    *)
(* the value the last call returned.  Strings are sequences of one-        *)
(* character strings; the character NonUtf8 stands for a byte sequence     *)
(* that is not valid UTF-8.                                                *)
(***************************************************************************)
EXTENDS Integers, Sequences, FiniteSets

VARIABLES is_tty,      \* isatty(STDOUT_FILENO) == 1
          ioctl_ok,    \* the TIOCGWINSZ request on STDOUT succeeds
          tty_winsize, \* the window size the tty driver holds
          environ,     \* the environment block: COLUMNS and LINES
          pc,          \* the function called last
          result,      \* what that call returned, or that it panicked
          ncalls,      \* consecutive terminal_size() calls since any other step
          history      \* the last two returns of terminal_size(), latest first

vars == <<is_tty, ioctl_ok, tty_winsize, environ, pc, result, ncalls, history>>

----------------------------------------------------------------------------
(* Bounds of the model *)

\* longest environment string generated from Alphabet
MaxLen == 2
\* the driver's rows and columns range over 0..MaxDim, 80 and u16::MAX
MaxDim == 1
\* most consecutive terminal_size() calls followed
MaxCalls == 2

(* Program constants *)

\* u16::MAX, the largest value of Width, Height and c_ushort
U16Max == 65535

----------------------------------------------------------------------------
(* Values *)

\* Option<(Width, Height)>, and a third outcome: the call panicked in unwrap()
None == [tag |-> "None", w |-> 0, h |-> 0]
Some(width, height) == [tag |-> "Some", w |-> width, h |-> height]
Panicked == [tag |-> "panic", w |-> 0, h |-> 0]
\* before any call
NoResult == [tag |-> "nocall", w |-> 0, h |-> 0]

\* struct WinSize
WinSize(row, col, xpixel, ypixel) ==
    [ws_row |-> row, ws_col |-> col, ws_xpixel |-> xpixel, ws_ypixel |-> ypixel]

\* env::var_os(x) = None
Unset == <<"unset">>
\* a byte sequence that is not UTF-8, as one character
NonUtf8 == "<FF>"
\* the numeral characters, DigitChar[d + 1] for the digit d
DigitChar == <<"0", "1", "2", "3", "4", "5", "6", "7", "8", "9">>
IsDigit(ch) == \E d \in 0..9 : DigitChar[d + 1] = ch
DigitValue(ch) == CHOOSE d \in 0..9 : DigitChar[d + 1] = ch

\* a failed unwrap(), as a value no u16 has
PanicValue == 0 - 1
\* Err(ParseIntError), as a value no u16 has
ParseErr == 0 - 2

----------------------------------------------------------------------------
(* fn terminal_size_using_fd *)

\* isatty(fd) == 1
isatty(tty) == tty

\* ioctl(fd, TIOCGWINSZ, &mut winsize): the driver's record on success, the
\* caller's record untouched on failure; the return value is dropped
ioctl(ok, driver, winsize) == IF ok THEN driver ELSE winsize

\* mutant: the pair built as (Width(rows), Height(cols))
terminal_size_using_fd_swapped(tty, ok, driver) ==
    IF ~isatty(tty)
    THEN None
    ELSE LET winsize == ioctl(ok, driver, WinSize(0, 0, 0, 0))
             rows == IF winsize.ws_row > 0 THEN winsize.ws_row ELSE 0
             cols == IF winsize.ws_col > 0 THEN winsize.ws_col ELSE 0
         IN  Some(rows % (U16Max + 1), cols % (U16Max + 1))

terminal_size_using_fd(tty, ok, driver) ==
    IF ~isatty(tty)
    THEN None
    ELSE LET winsize == ioctl(ok, driver, WinSize(0, 0, 0, 0))
             rows == IF winsize.ws_row > 0 THEN winsize.ws_row ELSE 0
             cols == IF winsize.ws_col > 0 THEN winsize.ws_col ELSE 0
         IN  Some(cols % (U16Max + 1), rows % (U16Max + 1))

----------------------------------------------------------------------------
(* fn terminal_size_using_env *)

\* OsString::into_string(): Err on a string that is not UTF-8
into_string_ok(v) == \A i \in 1..Len(v) : v[i] # NonUtf8

\* the digits of str::parse::<u16>(), left to right, with checked
\* multiplication and addition
RECURSIVE ParseDigits(_, _)
ParseDigits(digits, acc) ==
    IF digits = <<>>
    THEN acc
    ELSE IF ~IsDigit(Head(digits))
         THEN ParseErr
         ELSE LET next == acc * 10 + DigitValue(Head(digits))
              IN  IF next > U16Max THEN ParseErr ELSE ParseDigits(Tail(digits), next)

\* str::parse::<u16>(): an optional "+" and at least one decimal digit, no
\* sign "-" for an unsigned type, no blanks, value at most u16::MAX
ParseU16(s) ==
    IF s = <<>>
    THEN ParseErr
    ELSE IF s = <<"+">> \/ s = <<"-">>
         THEN ParseErr
         ELSE IF Head(s) = "+" THEN ParseDigits(Tail(s), 0) ELSE ParseDigits(s, 0)

\* mutant: an unset variable defaults to 80 instead of 0
get_u16_from_env_default80(env, x) ==
    IF env[x] # Unset
    THEN IF ~into_string_ok(env[x])
         THEN PanicValue
         ELSE IF ParseU16(env[x]) = ParseErr THEN PanicValue ELSE ParseU16(env[x])
    ELSE 80

\* mutant: unwrap_or(0) in place of unwrap()
get_u16_from_env_or_zero(env, x) ==
    IF env[x] # Unset
    THEN IF ~into_string_ok(env[x])
         THEN 0
         ELSE IF ParseU16(env[x]) = ParseErr THEN 0 ELSE ParseU16(env[x])
    ELSE 0

\* the closure get_u16_from_env
get_u16_from_env(env, x) ==
    IF env[x] # Unset
    THEN IF ~into_string_ok(env[x])
         THEN PanicValue
         ELSE IF ParseU16(env[x]) = ParseErr THEN PanicValue ELSE ParseU16(env[x])
    ELSE 0

\* mutant: no test for both values being 0
terminal_size_using_env_no_zero_test(env) ==
    LET c == get_u16_from_env(env, "COLUMNS")
    IN  IF c = PanicValue
        THEN Panicked
        ELSE LET r == get_u16_from_env(env, "LINES")
             IN  IF r = PanicValue THEN Panicked ELSE Some(c, r)

\* mutant: r == 0 || c == 0 in place of r == 0 && c == 0
terminal_size_using_env_either_zero(env) ==
    LET c == get_u16_from_env(env, "COLUMNS")
    IN  IF c = PanicValue
        THEN Panicked
        ELSE LET r == get_u16_from_env(env, "LINES")
             IN  IF r = PanicValue
                 THEN Panicked
                 ELSE IF r = 0 \/ c = 0 THEN None ELSE Some(c, r)

\* mutant: c read from LINES and r from COLUMNS
terminal_size_using_env_swapped(env) ==
    LET c == get_u16_from_env(env, "LINES")
    IN  IF c = PanicValue
        THEN Panicked
        ELSE LET r == get_u16_from_env(env, "COLUMNS")
             IN  IF r = PanicValue
                 THEN Panicked
                 ELSE IF r = 0 /\ c = 0 THEN None ELSE Some(c, r)

terminal_size_using_env(env) ==
    LET c == get_u16_from_env(env, "COLUMNS")
    IN  IF c = PanicValue
        THEN Panicked
        ELSE LET r == get_u16_from_env(env, "LINES")
             IN  IF r = PanicValue
                 THEN Panicked
                 ELSE IF r = 0 /\ c = 0 THEN None ELSE Some(c, r)

----------------------------------------------------------------------------
(* fn terminal_size *)

\* mutant: the environment is asked first and the device only when it has nothing
terminal_size_env_first(tty, ok, driver, env) ==
    LET size == terminal_size_using_env(env)
    IN  IF size = None THEN terminal_size_using_fd(tty, ok, driver) ELSE size

\* mutant: the environment is asked when there is no tty, too
terminal_size_fallback_on_none(tty, ok, driver, env) ==
    LET size == terminal_size_using_fd(tty, ok, driver)
    IN  IF size = Some(0, 0) \/ size = None
        THEN terminal_size_using_env(env)
        ELSE size

terminal_size(tty, ok, driver, env) ==
    LET size == terminal_size_using_fd(tty, ok, driver)
    IN  IF size = Some(0, 0) THEN terminal_size_using_env(env) ELSE size

----------------------------------------------------------------------------
(* The inputs the calls are followed on *)

\* the characters the short environment strings are made of
Alphabet == {"0", "8"}
\* every string over Alphabet of at most n characters, the empty one included
Strings(n) == UNION {[1..k -> Alphabet] : k \in 0..n}

\* n as a decimal numeral without sign or leading zeros
RECURSIVE Decimal(_)
Decimal(n) ==
    IF n < 10 THEN <<DigitChar[n + 1]>>
    ELSE Append(Decimal(n \div 10), DigitChar[(n % 10) + 1])

\* the numbers whose numerals COLUMNS and LINES are set to
EnvNumbers == {0, 24, 43, 80, 132, U16Max}
\* other spellings parse::<u16>() takes
OtherSpellings == {<<"+", "8", "0">>, <<"0", "2", "4">>, <<"+", "0">>}
\* numerals of numbers above u16::MAX
TooLarge == {Decimal(U16Max + 1), Decimal(99999)}
\* settings that are no u16: too large, not numeric, signed, blank, not UTF-8
Malformed ==
    TooLarge \cup
    {<<"x">>, <<"8", "0", "x">>, <<"-", "1">>, <<"-", "0">>, <<"+">>, <<"-">>,
     <<" ", "8", "0">>, <<"8", "0", " ">>, <<NonUtf8>>, <<"8", NonUtf8>>}

EnvValues ==
    {Unset} \cup Strings(MaxLen) \cup {Decimal(n) : n \in EnvNumbers}
            \cup OtherSpellings \cup Malformed
Environments == [{"COLUMNS", "LINES"} -> EnvValues]

\* rows and columns the driver reports
Dims == (0..MaxDim) \cup {80, U16Max}
\* ws_xpixel and ws_ypixel the driver reports
Pixels == {<<0, 0>>, <<640, 480>>}
DriverRecords ==
    {WinSize(r, c, p[1], p[2]) : r \in Dims, c \in Dims, p \in Pixels}

\* STDOUT: no tty (the request fails with ENOTTY), a tty whose driver refuses
\* the request, or a tty that answers it
Devices ==
    {[tty |-> FALSE, ok |-> FALSE, ws |-> WinSize(0, 0, 0, 0)],
     [tty |-> TRUE, ok |-> FALSE, ws |-> WinSize(0, 0, 0, 0)]}
    \cup {[tty |-> TRUE, ok |-> TRUE, ws |-> d] : d \in DriverRecords}

\* the smaller sets the terminal and the environment change over
LiveEnvValues == {Unset, Decimal(0), Decimal(80), <<"x">>}
LiveDims == 0..MaxDim
LiveDevices ==
    {[tty |-> FALSE, ok |-> FALSE, ws |-> WinSize(0, 0, 0, 0)],
     [tty |-> TRUE, ok |-> FALSE, ws |-> WinSize(0, 0, 0, 0)]}
    \cup {[tty |-> TRUE, ok |-> TRUE, ws |-> WinSize(r, c, 0, 0)] :
            r \in LiveDims, c \in LiveDims}

----------------------------------------------------------------------------
(* The state machine *)

Init ==
    /\ \E d \in Devices :
         /\ is_tty = d.tty
         /\ ioctl_ok = d.ok
         /\ tty_winsize = d.ws
    /\ environ \in Environments
    /\ pc = "start"
    /\ result = NoResult
    /\ ncalls = 0
    /\ history = <<NoResult, NoResult>>

InitLive ==
    /\ \E d \in LiveDevices :
         /\ is_tty = d.tty
         /\ ioctl_ok = d.ok
         /\ tty_winsize = d.ws
    /\ environ \in [{"COLUMNS", "LINES"} -> LiveEnvValues]
    /\ pc = "start"
    /\ result = NoResult
    /\ ncalls = 0
    /\ history = <<NoResult, NoResult>>

\* mutant: the call removes COLUMNS from the environment once it has read it
CallTerminalSize_consuming ==
    /\ ncalls < MaxCalls
    /\ result' = terminal_size(is_tty, ioctl_ok, tty_winsize, environ)
    /\ pc' = "terminal_size"
    /\ ncalls' = ncalls + 1
    /\ history' = <<result', history[1]>>
    /\ environ' = [environ EXCEPT !["COLUMNS"] = Unset]
    /\ UNCHANGED <<is_tty, ioctl_ok, tty_winsize>>

\* mutant: a size found once is kept and returned by the later calls
CallTerminalSize_cached ==
    /\ ncalls < MaxCalls
    /\ result' = IF history[1].tag = "Some"
                  THEN history[1]
                  ELSE terminal_size(is_tty, ioctl_ok, tty_winsize, environ)
    /\ pc' = "terminal_size"
    /\ ncalls' = ncalls + 1
    /\ history' = <<result', history[1]>>
    /\ UNCHANGED <<is_tty, ioctl_ok, tty_winsize, environ>>

\* a call of terminal_size(): it reads the terminal and the environment and
\* writes neither
CallTerminalSize ==
    /\ ncalls < MaxCalls
    /\ result' = terminal_size(is_tty, ioctl_ok, tty_winsize, environ)
    /\ pc' = "terminal_size"
    /\ ncalls' = ncalls + 1
    /\ history' = <<result', history[1]>>
    /\ UNCHANGED <<is_tty, ioctl_ok, tty_winsize, environ>>

\* a call of terminal_size_using_fd()
CallUsingFd ==
    /\ result' = terminal_size_using_fd(is_tty, ioctl_ok, tty_winsize)
    /\ pc' = "terminal_size_using_fd"
    /\ ncalls' = 0
    /\ UNCHANGED <<is_tty, ioctl_ok, tty_winsize, environ, history>>

\* a call of terminal_size_using_env(), as the test compare_using_env_with_tput
\* makes it
CallUsingEnv ==
    /\ result' = terminal_size_using_env(environ)
    /\ pc' = "terminal_size_using_env"
    /\ ncalls' = 0
    /\ UNCHANGED <<is_tty, ioctl_ok, tty_winsize, environ, history>>

\* the terminal window is resized: the driver holds another record
Resize ==
    /\ is_tty /\ ioctl_ok
    /\ \E r \in LiveDims, c \in LiveDims :
         /\ WinSize(r, c, 0, 0) # tty_winsize
         /\ tty_winsize' = WinSize(r, c, 0, 0)
    /\ pc' = "resize"
    /\ ncalls' = 0
    /\ UNCHANGED <<is_tty, ioctl_ok, environ, result, history>>

\* the process sets or removes COLUMNS or LINES
SetEnv ==
    /\ \E x \in {"COLUMNS", "LINES"}, v \in LiveEnvValues :
         /\ v # environ[x]
         /\ environ' = [environ EXCEPT ![x] = v]
    /\ pc' = "setenv"
    /\ ncalls' = 0
    /\ UNCHANGED <<is_tty, ioctl_ok, tty_winsize, result, history>>

\* STDOUT is attached to something else
Reattach ==
    /\ \E d \in LiveDevices :
         /\ d.tty # is_tty \/ d.ok # ioctl_ok
         /\ is_tty' = d.tty
         /\ ioctl_ok' = d.ok
         /\ tty_winsize' = d.ws
    /\ pc' = "reattach"
    /\ ncalls' = 0
    /\ UNCHANGED <<environ, result, history>>

\* calls on a terminal and an environment that stay as they are
Next == CallTerminalSize \/ CallUsingFd \/ CallUsingEnv

Spec == Init /\ [][Next]_vars

\* calls interleaved with resizes, environment changes and reattachments
NextLive ==
    \/ CallTerminalSize
    \/ Resize
    \/ SetEnv
    \/ Reattach

SpecLive == InitLive /\ [][NextLive]_vars

----------------------------------------------------------------------------
(* Vocabulary of the properties, stated on the state and not through the   *)
(* operators above                                                         *)

\* the latest step was a call of terminal_size()
Returned == pc = "terminal_size"
\* STDOUT is a tty whose driver reports rows or columns other than 0
ReportsSize ==
    is_tty /\ ioctl_ok /\ (tty_winsize.ws_row # 0 \/ tty_winsize.ws_col # 0)
\* STDOUT is a tty whose driver reports 0 rows and 0 columns, or refuses the
\* request and leaves the zeroed record as it was
ReportsZero ==
    is_tty /\ (~ioctl_ok \/ (tty_winsize.ws_row = 0 /\ tty_winsize.ws_col = 0))

\* the spellings of the number n: its numeral, with "+", with a leading zero
Spellings(n) == {Decimal(n), <<"+">> \o Decimal(n), <<"0">> \o Decimal(n)}
\* the setting v stands for the number n, an unset variable for 0
Denotes(v, n) == (v = Unset /\ n = 0) \/ v \in Spellings(n)
\* v is unset or a numeral of 0: zeros only, after an optional "+"
ZeroOrUnset(v) ==
    \/ v = Unset
    \/ /\ v # <<>>
       /\ v # <<"+">>
       /\ \A i \in 1..Len(v) : v[i] = "0" \/ (i = 1 /\ v[i] = "+")
\* v is set and is no numeral of a u16: empty, not UTF-8, a character that is
\* neither a digit nor a leading "+" before a digit, or a number too large
NotU16(v) ==
    /\ v # Unset
    /\ \/ v = <<>>
       \/ v = <<"+">>
       \/ \E i \in 1..Len(v) :
            v[i] \notin {"0", "1", "2", "3", "4", "5", "6", "7", "8", "9"}
            /\ ~(i = 1 /\ v[i] = "+")
       \/ v \in TooLarge

----------------------------------------------------------------------------
(* Properties *)

\* C1: whatever STDOUT is and whatever COLUMNS and LINES hold, terminal_size()
\* never returns the present pair (Width(0), Height(0)).
C1_NeverZeroPair == Returned => result # Some(0, 0)

\* C1 witness: the driver reported 0 x 0, both variables are numerals of 0, and
\* the call returned None.
C1_Witness ==
    /\ Returned /\ is_tty /\ ioctl_ok
    /\ tty_winsize.ws_row = 0 /\ tty_winsize.ws_col = 0
    /\ environ["COLUMNS"] = <<"0">> /\ environ["LINES"] = <<"0", "0">>
    /\ result = None

\* C2: on a tty whose driver reports rows or columns other than 0,
\* terminal_size() returns (Width(columns), Height(rows)) of the report whatever
\* COLUMNS and LINES hold, malformed settings included; it does not panic.
C2_DeviceWins ==
    (Returned /\ ReportsSize)
        => result = Some(tty_winsize.ws_col, tty_winsize.ws_row)

\* C2 witness: 80 columns and 0 rows reported, COLUMNS malformed, LINES = 24.
C2_Witness ==
    /\ Returned /\ ReportsSize
    /\ tty_winsize.ws_col = 80 /\ tty_winsize.ws_row = 0
    /\ environ["COLUMNS"] = <<"x">> /\ environ["LINES"] = Decimal(24)
    /\ result = Some(80, 0)

\* C3: when STDOUT is no tty, terminal_size() returns None whatever COLUMNS and
\* LINES hold: the environment is not read, so it neither supplies a size nor
\* makes the call panic.
C3_NoTtyIsNone == (Returned /\ ~is_tty) => result = None

\* C3 witness: no tty, COLUMNS = 80, LINES malformed, None returned.
C3_Witness ==
    /\ Returned /\ ~is_tty
    /\ environ["COLUMNS"] = Decimal(80) /\ environ["LINES"] = <<"-", "1">>
    /\ result = None

\* C4 as stated: when STDOUT is no tty and COLUMNS=80, LINES=24 are set,
\* terminal_size() returns (Width(80), Height(24)).
C4_NoTtyUsesEnv ==
    (Returned /\ ~is_tty
        /\ environ["COLUMNS"] = Decimal(80) /\ environ["LINES"] = Decimal(24))
        => result = Some(80, 24)

\* C4 amended: with COLUMNS=80 and LINES=24 set, terminal_size() returns
\* (Width(80), Height(24)) when STDOUT is a tty whose driver reports 0 x 0, and
\* None when STDOUT is no tty.
C4_ZeroTtyUsesEnv ==
    (Returned /\ environ["COLUMNS"] = Decimal(80) /\ environ["LINES"] = Decimal(24))
        => /\ ReportsZero => result = Some(80, 24)
           /\ ~is_tty => result = None

\* C4 witness: a tty reporting 0 x 0, COLUMNS=80, LINES=24, (80, 24) returned.
C4_Witness ==
    /\ Returned /\ is_tty /\ ioctl_ok
    /\ tty_winsize.ws_row = 0 /\ tty_winsize.ws_col = 0
    /\ environ["COLUMNS"] = Decimal(80) /\ environ["LINES"] = Decimal(24)
    /\ result = Some(80, 24)

\* C5: on a tty whose driver reports 0 x 0, for all c and r not both 0 with
\* COLUMNS standing for c and LINES for r (unset standing for 0),
\* terminal_size() returns (Width(c), Height(r)), also when one of them is 0.
C5_EnvAsIs ==
    \A c \in EnvNumbers, r \in EnvNumbers :
        (Returned /\ ReportsZero /\ ~(c = 0 /\ r = 0)
            /\ Denotes(environ["COLUMNS"], c) /\ Denotes(environ["LINES"], r))
            => result = Some(c, r)

\* C5 witness: COLUMNS=80, LINES unset, (Width(80), Height(0)) returned.
C5_Witness ==
    /\ Returned /\ ReportsZero
    /\ environ["COLUMNS"] = Decimal(80) /\ environ["LINES"] = Unset
    /\ result = Some(80, 0)

\* C6: on a tty whose driver reports 0 x 0, with COLUMNS and LINES each unset
\* or a numeral of 0, terminal_size() returns None; and
\* terminal_size_using_env(), when it returns, returns None exactly when both
\* are unset or numerals of 0.
C6_ZeroEnvIsNone ==
    /\ (Returned /\ ReportsZero
          /\ ZeroOrUnset(environ["COLUMNS"]) /\ ZeroOrUnset(environ["LINES"]))
          => result = None
    /\ (pc = "terminal_size_using_env" /\ result # Panicked)
          => (result = None
                <=> (ZeroOrUnset(environ["COLUMNS"]) /\ ZeroOrUnset(environ["LINES"])))

\* C6 witness: a tty reporting 0 x 0, COLUMNS unset, LINES = "00", None returned.
C6_Witness ==
    /\ Returned /\ ReportsZero
    /\ environ["COLUMNS"] = Unset /\ environ["LINES"] = <<"0", "0">>
    /\ result = None

\* C7: when the fallback runs (a tty reporting 0 x 0) and COLUMNS or LINES is
\* set to something that is no u16 numeral, the call panics, also when the
\* other variable holds a valid number other than 0.
C7_MalformedPanics ==
    (Returned /\ ReportsZero
        /\ (NotU16(environ["COLUMNS"]) \/ NotU16(environ["LINES"])))
        => result = Panicked

\* C7 witness: COLUMNS=80 is valid, LINES=65536 is too large, the call panicked.
C7_Witness ==
    /\ Returned /\ ReportsZero
    /\ environ["COLUMNS"] = Decimal(80) /\ environ["LINES"] = Decimal(U16Max + 1)
    /\ result = Panicked

C10_UsingFd ==
    pc = "terminal_size_using_fd"
        => /\ result = None <=> ~is_tty
           /\ (is_tty /\ ioctl_ok)
                => result = Some(tty_winsize.ws_col, tty_winsize.ws_row)
           /\ (is_tty /\ ~ioctl_ok) => result = Some(0, 0)

\* C10 witness: the request failed on a tty and Some((Width(0), Height(0)))
\* was returned.
C10_Witness ==
    /\ pc = "terminal_size_using_fd"
    /\ is_tty /\ ~ioctl_ok
    /\ result = Some(0, 0)

====
